---- MODULE Spec2Model ----
(***************************************************************************)
(* Encoding core of the cpu-n-chill assembler.                             *)
(*                                                                         *)
(* src/assembler/instruction.py holds the instruction classes and their    *)
(* encode methods; they are modelled here operator by operator, with       *)
(* Python's int arithmetic (unbounded two's complement for & and |, floor  *)
(* for //) and Python's int(str) parser.  The address resolver and the     *)
(* encoder driver are not in src/; they are modelled from spec.md 4.2/4.3. *)
(***************************************************************************)
EXTENDS Integers, Sequences, FiniteSets, TLC

VARIABLES
    call,                 \* the encode call under test: instruction and arguments
    result,               \* what that call returned or raised
    label_addresses,      \* the dict object handed to encode, as it is after the call
    stream,               \* the driver's input: parsed instructions and label markers
    phase,                \* "idle" | "resolve" | "encode" | "done" | "failed"
    index,                \* position of the running pass in the stream
    address,              \* the resolver's running byte address
    label_table,          \* label name -> byte address
    instruction_address,  \* stream index -> byte address (real instructions only)
    words,                \* output: machine words, in source order
    errors,               \* output: per-instruction failures, in source order
    failure               \* the fatal resolution error, if any

vars == <<call, result, label_addresses, stream, phase, index, address,
          label_table, instruction_address, words, errors, failure>>

encVars == <<call, result, label_addresses>>
drvVars == <<stream, phase, index, address, label_table, instruction_address,
             words, errors, failure>>

-----------------------------------------------------------------------------
(* Python integers: x & y, x | y, x << n and x // d on unbounded two's     *)
(* complement.                                                             *)

RECURSIVE Pow2(_)
Pow2(n) == IF n = 0 THEN 1 ELSE 2 * Pow2(n - 1)

RECURSIVE AndNat(_, _)
AndNat(x, y) ==
    IF x = 0 \/ y = 0 THEN 0
    ELSE (IF x % 2 = 1 /\ y % 2 = 1 THEN 1 ELSE 0) + 2 * AndNat(x \div 2, y \div 2)

RECURSIVE OrNat(_, _)
OrNat(x, y) ==
    IF x = 0 THEN y
    ELSE IF y = 0 THEN x
    ELSE (IF x % 2 = 1 \/ y % 2 = 1 THEN 1 ELSE 0) + 2 * OrNat(x \div 2, y \div 2)

Invert(x) == -x - 1

\* a & ~b for a, b >= 0
AndNotNat(a, b) == a - AndNat(a, b)

BitAnd(x, y) ==
    IF x >= 0 /\ y >= 0 THEN AndNat(x, y)
    ELSE IF x >= 0 THEN AndNotNat(x, Invert(y))
    ELSE IF y >= 0 THEN AndNotNat(y, Invert(x))
    ELSE Invert(OrNat(Invert(x), Invert(y)))

BitOr(x, y) ==
    IF x >= 0 /\ y >= 0 THEN OrNat(x, y)
    ELSE IF x >= 0 THEN Invert(AndNotNat(Invert(y), x))
    ELSE IF y >= 0 THEN Invert(AndNotNat(Invert(x), y))
    ELSE Invert(AndNat(Invert(x), Invert(y)))

Shl(x, n) == x * Pow2(n)
FloorDiv(x, d) == x \div d

-----------------------------------------------------------------------------
(* Python strings are sequences of one-character strings.                  *)

Digits == {"0", "1", "2", "3", "4", "5", "6", "7", "8", "9"}

DigitVal(c) ==
    CASE c = "0" -> 0 [] c = "1" -> 1 [] c = "2" -> 2 [] c = "3" -> 3
      [] c = "4" -> 4 [] c = "5" -> 5 [] c = "6" -> 6 [] c = "7" -> 7
      [] c = "8" -> 8 [] c = "9" -> 9

DigitChar(d) ==
    CASE d = 0 -> "0" [] d = 1 -> "1" [] d = 2 -> "2" [] d = 3 -> "3"
      [] d = 4 -> "4" [] d = 5 -> "5" [] d = 6 -> "6" [] d = 7 -> "7"
      [] d = 8 -> "8" [] d = 9 -> "9"

RECURSIVE DecVal(_)
DecVal(s) ==
    IF s = <<>> THEN 0
    ELSE 10 * DecVal(SubSeq(s, 1, Len(s) - 1)) + DigitVal(s[Len(s)])

\* s[1:]
SliceFrom1(s) == IF Len(s) = 0 THEN <<>> ELSE Tail(s)

\* int(s): an optional sign, then one or more decimal digits; anything else
\* raises ValueError.  (Surrounding whitespace and digit-separating
\* underscores, which int() also accepts, are outside the alphabet used.)
PyInt(s) ==
    LET signed == Len(s) > 0 /\ s[1] \in {"+", "-"}
        body   == IF signed THEN Tail(s) ELSE s
        wellFormed == Len(body) > 0 /\ \A i \in 1..Len(body) : body[i] \in Digits
    IN  IF ~wellFormed THEN [ok |-> FALSE, val |-> 0]
        ELSE [ok |-> TRUE,
              val |-> IF signed /\ s[1] = "-" THEN -DecVal(body) ELSE DecVal(body)]

\* str(n) for n >= 0
RECURSIVE PyStr(_)
PyStr(n) ==
    IF n < 10 THEN <<DigitChar(n)>>
    ELSE Append(PyStr(n \div 10), DigitChar(n % 10))

-----------------------------------------------------------------------------
(* Instructions and the outcome of an encode call.                         *)

MoveInstruction(destination_register, immediate_value, line_number) ==
    [opcode |-> "MOV", destination_register |-> destination_register,
     immediate_value |-> immediate_value, line_number |-> line_number]

AddInstruction(destination_register, source_register_1, source_register_2, line_number) ==
    [opcode |-> "ADD", destination_register |-> destination_register,
     source_register_1 |-> source_register_1,
     source_register_2 |-> source_register_2, line_number |-> line_number]

SubtractInstruction(destination_register, source_register_1, source_register_2, line_number) ==
    [opcode |-> "SUB", destination_register |-> destination_register,
     source_register_1 |-> source_register_1,
     source_register_2 |-> source_register_2, line_number |-> line_number]

BranchInstruction(label, line_number) ==
    [opcode |-> "B", label |-> label, line_number |-> line_number]

\* Optional dict argument: label_addresses=None or a dict.
None == [isNone |-> TRUE, map |-> <<>>]
Dict(m) == [isNone |-> FALSE, map |-> m]

Returned(w) == [tag |-> "word", word |-> w, kind |-> "", line |-> 0]
\* The ValueError of int() carries no line number (line 0); the ValueError of
\* Branch.encode carries self.line_number in its message.
Raised(k, l) == [tag |-> "raise", word |-> 0, kind |-> k, line |-> l]

\* Mutant: an unparsable register name is taken as register 0.
MoveInstruction_encode_lenient(self, labels, current_address) ==
    LET dest == PyInt(SliceFrom1(self.destination_register))
    IN  Returned(BitOr(BitOr(Shl(1, 28), Shl(dest.val, 16)),
                       BitAnd(self.immediate_value, 65535)))

MoveInstruction_encode(self, labels, current_address) ==
    LET dest == PyInt(SliceFrom1(self.destination_register))
    IN  IF ~dest.ok THEN Raised("InvalidRegister", 0)
        ELSE Returned(BitOr(BitOr(Shl(1, 28), Shl(dest.val, 16)),
                            BitAnd(self.immediate_value, 65535)))

RegisterForm(opc, self) ==
    LET dest == PyInt(SliceFrom1(self.destination_register))
        src1 == PyInt(SliceFrom1(self.source_register_1))
        src2 == PyInt(SliceFrom1(self.source_register_2))
    IN  IF ~dest.ok \/ ~src1.ok \/ ~src2.ok THEN Raised("InvalidRegister", 0)
        ELSE Returned(BitOr(BitOr(BitOr(Shl(opc, 28), Shl(dest.val, 16)),
                                  Shl(src1.val, 8)),
                            src2.val))

\* Mutant: the two source registers packed in each other's field.
AddInstruction_encode_swapped(self, labels, current_address) ==
    RegisterForm(2, [self EXCEPT !.source_register_1 = self.source_register_2,
                                 !.source_register_2 = self.source_register_1])

AddInstruction_encode(self, labels, current_address) == RegisterForm(2, self)

\* Mutant: Subtract keeps the opcode of the Add it was copied from.
SubtractInstruction_encode_asAdd(self, labels, current_address) == RegisterForm(2, self)

SubtractInstruction_encode(self, labels, current_address) == RegisterForm(3, self)

\* Mutant: the offset taken from the branch itself, not from the next instruction.
BranchInstruction_encode_noNext(self, labels, current_address) ==
    IF labels.isNone \/ self.label \notin DOMAIN labels.map
    THEN Raised("UnresolvedLabel", self.line_number)
    ELSE LET target_address == labels.map[self.label]
             offset == FloorDiv(target_address - current_address, 4)
         IN  Returned(BitOr(Shl(4, 28), BitAnd(offset, 268435455)))

\* Mutant: a label missing from the dict reads as address 0.
BranchInstruction_encode_default(self, labels, current_address) ==
    IF labels.isNone
    THEN Raised("UnresolvedLabel", self.line_number)
    ELSE LET target_address == IF self.label \in DOMAIN labels.map
                               THEN labels.map[self.label] ELSE 0
             offset == FloorDiv(target_address - current_address - 4, 4)
         IN  Returned(BitOr(Shl(4, 28), BitAnd(offset, 268435455)))

\* Mutant: the operands of the subtraction exchanged.
BranchInstruction_encode_reversed(self, labels, current_address) ==
    IF labels.isNone \/ self.label \notin DOMAIN labels.map
    THEN Raised("UnresolvedLabel", self.line_number)
    ELSE LET target_address == labels.map[self.label]
             offset == FloorDiv(current_address - target_address - 4, 4)
         IN  Returned(BitOr(Shl(4, 28), BitAnd(offset, 268435455)))

BranchInstruction_encode(self, labels, current_address) ==
    IF labels.isNone \/ self.label \notin DOMAIN labels.map
    THEN Raised("UnresolvedLabel", self.line_number)
    ELSE LET target_address == labels.map[self.label]
             offset == FloorDiv(target_address - current_address - 4, 4)
         IN  Returned(BitOr(Shl(4, 28), BitAnd(offset, 268435455)))

\* Dynamic dispatch of instr.encode(label_addresses, current_address).
Encode(self, labels, current_address) ==
    CASE self.opcode = "MOV" -> MoveInstruction_encode(self, labels, current_address)
      [] self.opcode = "ADD" -> AddInstruction_encode(self, labels, current_address)
      [] self.opcode = "SUB" -> SubtractInstruction_encode(self, labels, current_address)
      [] self.opcode = "B"   -> BranchInstruction_encode(self, labels, current_address)

-----------------------------------------------------------------------------
(* Inputs of the encode calls.                                             *)

MaxNameLen == 2
MaxLine == 2

Lines == 1..MaxLine

Alphabet == {"R", "X", "-", "7"}

\* Every string over Alphabet of at most MaxNameLen characters.
ShapeNames == UNION {[1..n -> Alphabet] : n \in 0..MaxNameLen}

RegSamples == {0, 1, 15, 255, 256, 4095, 4096, 8192}

RName(n) == <<"R">> \o PyStr(n)

NumericNames == {RName(n) : n \in RegSamples}

MoveRegNames == ShapeNames \cup NumericNames \cup {RName(n) : n \in 0..15}

ImmSamples == {-32769, -32768, -1, 0, 5, 32767, 32768, 65535, 65536}

\* Register triples: all numeric, or exactly one operand of arbitrary shape.
RegTriples ==
    (NumericNames \X NumericNames \X NumericNames)
    \cup {<<s, a, b>> : s \in ShapeNames, a \in NumericNames, b \in NumericNames}
    \cup {<<a, s, b>> : s \in ShapeNames, a \in NumericNames, b \in NumericNames}
    \cup {<<a, b, s>> : s \in ShapeNames, a \in NumericNames, b \in NumericNames}

LabelNames == {"END", "LOOP"}

\* Byte addresses: small aligned ones, an unaligned one, and the ends of the
\* signed 28-bit offset range.
AddrSamples == {0, 4, 8, 6, 536870908, 536870912, 536870916}

LabelTables ==
    {None} \cup {Dict(m) : m \in UNION {[S -> AddrSamples] : S \in SUBSET LabelNames}}

NoCall == [instr |-> [opcode |-> "none"], labels |-> None, current_address |-> 0]

Invoke(instr, labels, current_address) ==
    /\ call' = [instr |-> instr, labels |-> labels, current_address |-> current_address]
    /\ result' = Encode(instr, labels, current_address)
    /\ label_addresses' = labels
    /\ UNCHANGED drvVars

CallMove ==
    /\ call = NoCall
    /\ \E rd \in MoveRegNames, imm \in ImmSamples, line \in Lines :
        Invoke(MoveInstruction(rd, imm, line), None, 0)

CallAdd ==
    /\ call = NoCall
    /\ \E t \in RegTriples, line \in Lines :
        Invoke(AddInstruction(t[1], t[2], t[3], line), None, 0)

CallSubtract ==
    /\ call = NoCall
    /\ \E t \in RegTriples, line \in Lines :
        Invoke(SubtractInstruction(t[1], t[2], t[3], line), None, 0)

CallBranch ==
    /\ call = NoCall
    /\ \E label \in LabelNames, line \in Lines, labels \in LabelTables,
       current_address \in AddrSamples :
        Invoke(BranchInstruction(label, line), labels, current_address)

NoFailure == [kind |-> "none", name |-> ""]

DrvIdle ==
    /\ stream = <<>>
    /\ phase = "idle"
    /\ index = 0
    /\ address = 0
    /\ label_table = <<>>
    /\ instruction_address = <<>>
    /\ words = <<>>
    /\ errors = <<>>
    /\ failure = NoFailure

EncInit ==
    /\ call = NoCall
    /\ result = Returned(0)
    /\ label_addresses = None
    /\ DrvIdle

EncNext == CallMove \/ CallAdd \/ CallSubtract \/ CallBranch

EncSpec == EncInit /\ [][EncNext]_vars

-----------------------------------------------------------------------------
(* Properties of the encode methods, checked under EncSpec.                *)

AllRegNums == RegSamples \cup 0..15

NameOf == [n \in AllRegNums |-> RName(n)]

\* The register numbers n with name = "R" + str(n).
NumsOf(name, S) == {n \in S \cap AllRegNums : NameOf[n] = name}

\* 'R' followed by one or more decimal digits.
IsRegShape(s) ==
    /\ Len(s) >= 2
    /\ s[1] = "R"
    /\ \A i \in 2..Len(s) : s[i] \in Digits

RegOperands(instr) ==
    IF instr.opcode = "MOV" THEN {instr.destination_register}
    ELSE {instr.destination_register, instr.source_register_1, instr.source_register_2}

OpcodeOf(instr) ==
    CASE instr.opcode = "MOV" -> 1 [] instr.opcode = "ADD" -> 2
      [] instr.opcode = "SUB" -> 3 [] instr.opcode = "B" -> 4

SignExtend28(w) ==
    LET low == w % 268435456
    IN  IF low >= 134217728 THEN low - 268435456 ELSE low

\* C1: for a label at address A and a branch at address B, both non-negative
\* multiples of 4, with (A-B-4)/4 in the signed 28-bit range, Branch.encode
\* returns (4<<28) | (offset & 0x0FFFFFFF) with offset = (A-B-4)/4, and the
\* sign-extended low 28 bits of the word, times 4, plus B + 4, give back A.
C1_BranchOffset ==
    (/\ call.instr.opcode = "B"
     /\ ~call.labels.isNone
     /\ call.instr.label \in DOMAIN call.labels.map)
    => LET A == call.labels.map[call.instr.label]
           B == call.current_address
           q == (A - B - 4) \div 4
       IN  (/\ A % 4 = 0 /\ B % 4 = 0 /\ A >= 0 /\ B >= 0
            /\ q >= -134217728 /\ q <= 134217727)
           => /\ result.tag = "word"
              /\ 4 * q = A - B - 4
              /\ result.word = 1073741824 + (q % 268435456)
              /\ result.word \div 268435456 = 4
              /\ SignExtend28(result.word) * 4 + B + 4 = A

\* A backward branch (label at 0, branch at 8) encoded as offset -3.
C1_Witness ==
    /\ call.instr.opcode = "B"
    /\ ~call.labels.isNone
    /\ call.instr.label \in DOMAIN call.labels.map
    /\ call.labels.map[call.instr.label] = 0
    /\ call.current_address = 8
    /\ result.tag = "word"
    /\ SignExtend28(result.word) = -3

\* C2: in-range operands round-trip through the packed fields: Move with rd
\* in 0..15 and imm in -32768..65535 gives code>>28 = 1, (code>>16)&0xFFF = rd,
\* code&0xFFFF = imm&0xFFFF; Add/Subtract with rd, rn, rm in 0..255 give
\* code>>28 = 2/3, (code>>16)&0xFFF = rd, (code>>8)&0xFF = rn, code&0xFF = rm.
C2_RoundTrip ==
    /\ call.instr.opcode = "MOV"
       => \A rd \in NumsOf(call.instr.destination_register, 0..15) :
            (call.instr.immediate_value \in -32768..65535)
            => /\ result.tag = "word"
               /\ result.word \div 268435456 = 1
               /\ (result.word \div 65536) % 4096 = rd
               /\ result.word % 65536 = call.instr.immediate_value % 65536
    /\ call.instr.opcode \in {"ADD", "SUB"}
       => \A rd \in NumsOf(call.instr.destination_register, 0..255),
             rn \in NumsOf(call.instr.source_register_1, 0..255),
             rm \in NumsOf(call.instr.source_register_2, 0..255) :
            /\ result.tag = "word"
            /\ result.word \div 268435456 = OpcodeOf(call.instr)
            /\ (result.word \div 65536) % 4096 = rd
            /\ (result.word \div 256) % 256 = rn
            /\ result.word % 256 = rm

\* SUB R15, R255, R1 encoded with all three fields in place.
C2_Witness ==
    /\ call.instr.opcode = "SUB"
    /\ call.instr.destination_register = RName(15)
    /\ call.instr.source_register_1 = RName(255)
    /\ call.instr.source_register_2 = RName(1)
    /\ result.tag = "word"
    /\ result.word = 805306368 + 15 * 65536 + 255 * 256 + 1

\* C7: Branch.encode fails with UnresolvedLabel, carrying the branch's line
\* number and returning no word, exactly when the target label is absent from
\* the table passed (or no table is passed); the table is left unchanged.
C7_UnresolvedLabel ==
    call.instr.opcode = "B"
    => /\ (call.labels.isNone \/ call.instr.label \notin DOMAIN call.labels.map)
          <=> result.tag = "raise"
       /\ result.tag = "raise"
          => /\ result.kind = "UnresolvedLabel"
             /\ result.line = call.instr.line_number
       /\ result.tag \in {"raise", "word"}
       /\ label_addresses = call.labels

\* A branch on line 2 to END against a table that binds only LOOP.
C7_Witness ==
    /\ call.instr.opcode = "B"
    /\ call.instr.label = "END"
    /\ call.instr.line_number = 2
    /\ ~call.labels.isNone
    /\ DOMAIN call.labels.map = {"LOOP"}
    /\ result = Raised("UnresolvedLabel", 2)

\* C9: out-of-range operands truncate and never spill: for all non-negative
\* register numbers and every immediate, Move.encode is exactly
\* (1<<28) | (rd & 0xFFF)<<16 | (imm & 0xFFFF) and Add/Subtract.encode exactly
\* (opcode<<28) | (rd & 0xFFF)<<16 | (rn & 0xFF)<<8 | (rm & 0xFF), a 32-bit
\* unsigned word whose bits [31:28] are the opcode.
C9_Truncates ==
    /\ call.instr.opcode = "MOV"
       => \A rd \in NumsOf(call.instr.destination_register, AllRegNums) :
            /\ result.tag = "word"
            /\ result.word = (268435456 + (rd % 4096) * 65536
                              + (call.instr.immediate_value % 65536))
            /\ result.word \div 268435456 = 1
    /\ call.instr.opcode \in {"ADD", "SUB"}
       => \A rd \in NumsOf(call.instr.destination_register, AllRegNums),
             rn \in NumsOf(call.instr.source_register_1, AllRegNums),
             rm \in NumsOf(call.instr.source_register_2, AllRegNums) :
            /\ result.tag = "word"
            /\ result.word = (OpcodeOf(call.instr) * 268435456 + (rd % 4096) * 65536
                              + (rn % 256) * 256 + (rm % 256))
            /\ result.word \div 268435456 = OpcodeOf(call.instr)

\* C10: Move, Add and Subtract encode fail with InvalidRegister exactly when
\* some register operand is not 'R' followed by one or more decimal digits.
C10_InvalidRegister ==
    call.instr.opcode \in {"MOV", "ADD", "SUB"}
    => ((\E r \in RegOperands(call.instr) : ~IsRegShape(r))
        <=> result = Raised("InvalidRegister", 0))

-----------------------------------------------------------------------------
(* The assembler: address resolver (spec.md 4.2) and encoder driver        *)
(* (spec.md 4.3), which call the encode methods above.                     *)

MaxStreamLen == 4

\* A label marker: a name, no width, no machine word.
Label(name) == [opcode |-> "LABEL", name |-> name]

IsLabel(entry) == entry.opcode = "LABEL"

Kinds == {"mov", "movbad", "b_end", "b_loop", "end", "loop"}

\* The stream entry of a kind; an instruction on source line `line`.
Entry(kind, line) ==
    CASE kind = "mov"    -> MoveInstruction(RName(0), 5, line)
      [] kind = "movbad" -> MoveInstruction(<<"R">>, 1, line)
      [] kind = "b_end"  -> BranchInstruction("END", line)
      [] kind = "b_loop" -> BranchInstruction("LOOP", line)
      [] kind = "end"    -> Label("END")
      [] kind = "loop"   -> Label("LOOP")

\* MOV R0, #5 / ADD R1, R0, R0 / B END / SUB R2, R1, R0 / END:
Example ==
    << MoveInstruction(RName(0), 5, 1),
       AddInstruction(RName(1), RName(0), RName(0), 2),
       BranchInstruction("END", 3),
       SubtractInstruction(RName(2), RName(1), RName(0), 4),
       Label("END") >>

Streams ==
    {Example} \cup
    UNION {{[i \in 1..n |-> Entry(f[i], i)] : f \in [1..n -> Kinds]} : n \in 0..MaxStreamLen}

Init ==
    /\ call = NoCall
    /\ result = Returned(0)
    /\ label_addresses = None
    /\ stream \in Streams
    /\ phase = "resolve"
    /\ index = 1
    /\ address = 0
    /\ label_table = <<>>
    /\ instruction_address = <<>>
    /\ words = <<>>
    /\ errors = <<>>
    /\ failure = NoFailure

\* Mutant: a label marker advances the address like an instruction.
ResolveStep_labelAdvances ==
    /\ phase = "resolve"
    /\ index <= Len(stream)
    /\ LET entry == stream[index]
       IN  IF IsLabel(entry)
           THEN IF entry.name \in DOMAIN label_table
                THEN /\ phase' = "failed"
                     /\ failure' = [kind |-> "DuplicateLabel", name |-> entry.name]
                     /\ UNCHANGED <<index, address, label_table, instruction_address>>
                ELSE /\ label_table' = (entry.name :> address) @@ label_table
                     /\ address' = address + 4
                     /\ index' = index + 1
                     /\ UNCHANGED <<phase, failure, instruction_address>>
           ELSE /\ instruction_address' = (index :> address) @@ instruction_address
                /\ address' = address + 4
                /\ index' = index + 1
                /\ UNCHANGED <<phase, failure, label_table>>
    /\ UNCHANGED <<stream, words, errors>>
    /\ UNCHANGED encVars

\* Mutant: a second definition silently rebinds the label.
ResolveStep_overwrite ==
    /\ phase = "resolve"
    /\ index <= Len(stream)
    /\ LET entry == stream[index]
       IN  IF IsLabel(entry)
           THEN /\ label_table' = (entry.name :> address) @@ label_table
                /\ index' = index + 1
                /\ UNCHANGED <<phase, failure, address, instruction_address>>
           ELSE /\ instruction_address' = (index :> address) @@ instruction_address
                /\ address' = address + 4
                /\ index' = index + 1
                /\ UNCHANGED <<phase, failure, label_table>>
    /\ UNCHANGED <<stream, words, errors>>
    /\ UNCHANGED encVars

\* One iteration of the resolution pass.
ResolveStep ==
    /\ phase = "resolve"
    /\ index <= Len(stream)
    /\ LET entry == stream[index]
       IN  IF IsLabel(entry)
           THEN IF entry.name \in DOMAIN label_table
                THEN /\ phase' = "failed"
                     /\ failure' = [kind |-> "DuplicateLabel", name |-> entry.name]
                     /\ UNCHANGED <<index, address, label_table, instruction_address>>
                ELSE /\ label_table' = (entry.name :> address) @@ label_table
                     /\ index' = index + 1
                     /\ UNCHANGED <<phase, failure, address, instruction_address>>
           ELSE /\ instruction_address' = (index :> address) @@ instruction_address
                /\ address' = address + 4
                /\ index' = index + 1
                /\ UNCHANGED <<phase, failure, label_table>>
    /\ UNCHANGED <<stream, words, errors>>
    /\ UNCHANGED encVars

\* The barrier: the resolution pass has walked the whole stream.
FinishResolve ==
    /\ phase = "resolve"
    /\ index > Len(stream)
    /\ phase' = "encode"
    /\ index' = 1
    /\ UNCHANGED <<stream, address, label_table, instruction_address, words,
                   errors, failure>>
    /\ UNCHANGED encVars

\* One iteration of the encode pass.
EncodeStep ==
    /\ phase = "encode"
    /\ index <= Len(stream)
    /\ LET entry == stream[index]
       IN  IF IsLabel(entry)
           THEN UNCHANGED <<words, errors>>
           ELSE LET r == Encode(entry, Dict(label_table), instruction_address[index])
                IN  IF r.tag = "word"
                    THEN /\ words' = Append(words, r.word)
                         /\ UNCHANGED errors
                    ELSE /\ errors' = Append(errors, [line_number |-> entry.line_number,
                                                      kind |-> r.kind])
                         /\ UNCHANGED words
    /\ index' = index + 1
    /\ UNCHANGED <<stream, phase, address, label_table, instruction_address, failure>>
    /\ UNCHANGED encVars

FinishEncode ==
    /\ phase = "encode"
    /\ index > Len(stream)
    /\ phase' = "done"
    /\ UNCHANGED <<stream, index, address, label_table, instruction_address, words,
                   errors, failure>>
    /\ UNCHANGED encVars

Next == ResolveStep \/ FinishResolve \/ EncodeStep \/ FinishEncode

Spec == Init /\ [][Next]_vars

-----------------------------------------------------------------------------
(* Properties of the assembler, checked under Spec.                        *)

Reals(s) == {i \in 1..Len(s) : ~IsLabel(s[i])}

\* Number of real instructions before stream index i.
RealBefore(s, i) == Cardinality({j \in Reals(s) : j < i})

Markers(s, name) == {i \in 1..Len(s) : IsLabel(s[i]) /\ s[i].name = name}

DefinedLabels(s) == {s[i].name : i \in (1..Len(s)) \ Reals(s)}

HasDuplicate(s) == \E name \in DefinedLabels(s) : Cardinality(Markers(s, name)) > 1

Min(S) == CHOOSE x \in S : \A y \in S : x <= y

\* Index of the first marker whose name an earlier marker already defines.
SecondDef(s) ==
    Min({j \in 1..Len(s) : IsLabel(s[j]) /\ \E i \in Markers(s, s[j].name) : i < j})

\* Each label bound to the address of the next real instruction.
NextRealAddress(s) ==
    [name \in DefinedLabels(s) |-> 4 * RealBefore(s, Min(Markers(s, name)))]

\* C3: after the resolution pass over a stream with distinct label names,
\* every real instruction at index i has address 4 * (real instructions
\* before i), every label is bound to 4 * (real instructions before its
\* marker), and every address in the label table is a non-negative multiple
\* of 4.
C3_Addresses ==
    (phase \in {"encode", "done"})
    => /\ ~HasDuplicate(stream)
       /\ DOMAIN instruction_address = Reals(stream)
       /\ \A i \in Reals(stream) : instruction_address[i] = 4 * RealBefore(stream, i)
       /\ DOMAIN label_table = DefinedLabels(stream)
       /\ \A name \in DefinedLabels(stream) : \A i \in Markers(stream, name) :
            label_table[name] = 4 * RealBefore(stream, i)
       /\ \A name \in DOMAIN label_table :
            label_table[name] >= 0 /\ label_table[name] % 4 = 0

\* Resolved: LOOP: / MOV / END: / MOV / (trailing) -- a label between two
\* instructions bound to the second one's address.
C3_Witness ==
    /\ phase = "encode"
    /\ Len(stream) = 4
    /\ IsLabel(stream[1]) /\ ~IsLabel(stream[2]) /\ IsLabel(stream[3]) /\ ~IsLabel(stream[4])
    /\ label_table = [LOOP |-> 0, END |-> 4]
    /\ instruction_address[4] = 4

\* Word position of the real instruction at stream index i, once encoded.
WordPos(i) ==
    RealBefore(stream, i) + 1
    - Cardinality({k \in 1..Len(errors) : errors[k].line_number < i})

ForwardBranches ==
    {i \in Reals(stream) :
        /\ stream[i].opcode = "B"
        /\ \E j \in Markers(stream, stream[i].label) : j > i}

\* C4: no Branch is encoded before the resolution pass has processed the
\* whole stream and the label table is complete and frozen; so a Branch whose
\* target label is defined later in the stream encodes successfully, with a
\* non-negative offset, instead of failing with UnresolvedLabel.
C4_TwoPass ==
    /\ (words # <<>> \/ errors # <<>>)
       => /\ phase \in {"encode", "done"}
          /\ label_table = NextRealAddress(stream)
    /\ phase \in {"encode", "done"} => label_table = NextRealAddress(stream)
    /\ phase \in {"encode", "done"}
       => \A i \in ForwardBranches :
            (phase = "done" \/ index > i)
            => /\ \A k \in 1..Len(errors) : errors[k].line_number # i
               /\ WordPos(i) \in 1..Len(words)
               /\ words[WordPos(i)] \div 268435456 = 4
               /\ words[WordPos(i)] % 268435456 < 134217728
               /\ 4 * (words[WordPos(i)] % 268435456) + 4 * RealBefore(stream, i) + 4
                  = label_table[stream[i].label]

\* B END / MOV / END: assembled: the branch word carries offset 1.
C4_Witness ==
    /\ phase = "done"
    /\ Len(stream) = 3
    /\ stream[1] = BranchInstruction("END", 1)
    /\ ~IsLabel(stream[2])
    /\ stream[3] = Label("END")
    /\ errors = <<>>
    /\ words[1] = 1073741825

\* The word of the real instruction at index i, encoded at its own address
\* against the complete label table.
WordOf(i) ==
    Encode(stream[i], Dict(NextRealAddress(stream)), 4 * RealBefore(stream, i)).word

\* C5: when resolution succeeds and no instruction fails to encode, the
\* output holds exactly one word per real instruction, in source order, the
\* k-th being the encoding of the k-th real instruction at address 4*k with
\* the complete label table; the example stream yields 0x10000005,
\* 0x20010000, 0x40000001, 0x30020100.
C5_Output ==
    (phase = "done" /\ errors = <<>>)
    => /\ Len(words) = Cardinality(Reals(stream))
       /\ \A i \in Reals(stream) : words[RealBefore(stream, i) + 1] = WordOf(i)
       /\ stream = Example => words = <<268435461, 536936448, 1073741825, 805437696>>

C5_Witness ==
    /\ phase = "done"
    /\ stream = Example
    /\ errors = <<>>
    /\ words = <<268435461, 536936448, 1073741825, 805437696>>

\* The real instructions that cannot encode: a branch to a label no marker
\* defines, or a register name whose numeric part is empty.
Failing ==
    {i \in Reals(stream) :
        \/ stream[i].opcode = "B" /\ stream[i].label \notin DefinedLabels(stream)
        \/ stream[i].opcode = "MOV" /\ stream[i].destination_register = <<"R">>}

KindOf(i) == IF stream[i].opcode = "B" THEN "UnresolvedLabel" ELSE "InvalidRegister"

\* C6: the encode pass never aborts on the first failure: when resolution
\* succeeds and some instruction fails to encode, every remaining instruction
\* is still attempted and the driver ends with a non-empty failure list
\* holding exactly one entry per failing instruction, in source order, each
\* with that instruction's line number and failure kind.
C6_CollectsAll ==
    phase = "done"
    => /\ Len(errors) = Cardinality(Failing)
       /\ Len(words) + Len(errors) = Cardinality(Reals(stream))
       /\ \A i \in Failing :
            \E k \in 1..Len(errors) :
                errors[k] = [line_number |-> stream[i].line_number, kind |-> KindOf(i)]
       /\ \A k \in 1..Len(errors) : \A m \in 1..Len(errors) :
            k < m => errors[k].line_number < errors[m].line_number
       /\ \A i \in Reals(stream) \ Failing : words[WordPos(i)] = WordOf(i)
       /\ Failing # {} => errors # <<>>

\* B LOOP (undefined) / MOV R0 / MOV R / END: -- two failures around a success.
C6_Witness ==
    /\ phase = "done"
    /\ Len(stream) = 4
    /\ stream[2] = MoveInstruction(RName(0), 5, 2)
    /\ errors = << [line_number |-> 1, kind |-> "UnresolvedLabel"],
                   [line_number |-> 3, kind |-> "InvalidRegister"] >>
    /\ words = <<268435461>>

\* C8: if a label name is defined more than once, resolution raises
\* DuplicateLabel at the second definition and stops at once: the encode
\* phase never starts and no machine word is produced.
C8_DuplicateLabel ==
    /\ HasDuplicate(stream)
       => /\ phase \in {"resolve", "failed"}
          /\ index <= SecondDef(stream)
          /\ words = <<>> /\ errors = <<>>
          /\ phase = "failed"
             => /\ index = SecondDef(stream)
                /\ failure = [kind |-> "DuplicateLabel",
                              name |-> stream[SecondDef(stream)].name]
          /\ (phase = "resolve" /\ index = SecondDef(stream)) => ENABLED ResolveStep
    /\ phase = "failed" => HasDuplicate(stream) /\ ~ENABLED Next
    /\ ~HasDuplicate(stream) => failure = NoFailure

\* MOV / END: / MOV / END: has failed at index 4 with nothing encoded.
C8_Witness ==
    /\ phase = "failed"
    /\ Len(stream) = 4
    /\ ~IsLabel(stream[1]) /\ ~IsLabel(stream[3])
    /\ stream[2] = Label("END") /\ stream[4] = Label("END")
    /\ index = 4
    /\ words = <<>>

====
